---- MODULE Spec2Model ----
(***************************************************************************)
(* Model of @stdlib/blas-base-wasm-drotm: the WebAssembly kernel           *)
(* c_drotm_ndarray / c_drotm (decoded from the binary embedded in          *)
(* src/index.mjs), the pointer-level wrapper Module (src/lib/module.js)    *)
(* and the array-level wrapper Routine (bundled in src/index.mjs).         *)
(*                                                                         *)
(* Doubles are modelled by integers: every value the model computes is a   *)
(* small integer, for which IEEE-754 double arithmetic is exact.  Module   *)
(* memory is an array of 8-byte cells; pointers are byte offsets that are  *)
(* multiples of 8.                                                         *)
(***************************************************************************)
EXTENDS Integers, Sequences, FiniteSets, TLC

\* ---------------------------------------------------------------- bounds
MaxN == 2
MaxOffset == 2
MaxStride == 2
ArrLen == 5

\* ------------------------------------------------------ program constants
BYTES_PER_ELEMENT == 8
PARAM_LEN == 5
\* the vector length of the documented examples
DocN == 5
\* the value standing for NaN: no computation of the model yields it
NaN == 0 - 1000000

\* ------------------------------------------------------------ input sets
Ns == (-1)..MaxN
Strides == (-MaxStride)..MaxStride
Offsets == 0..MaxOffset
Flags == {-3, -2, -1, 0, 1, 2}
Hs == {<<2, 3, 5, 7>>, <<-1, 2, -3, 1>>}
ArrNames == {"a", "b"}

\* module memory: room for the three vectors of the documented examples
MemCells == 2 * DocN + PARAM_LEN
MemBytes == MemCells * BYTES_PER_ELEMENT
PPtr == (MemCells - PARAM_LEN) * BYTES_PER_ELEMENT
XPtrs == {0, BYTES_PER_ELEMENT}
YPtrs == {0, 3 * BYTES_PER_ELEMENT}

VARIABLES
    mem,    \* module memory: cell index -> value
    arrs,   \* the caller's Float64Arrays "a" and "b": index -> value
    param,  \* the caller's parameter array (Routine form)
    pc,     \* position of the call in progress
    call,   \* the entry point called and its arguments
    k,      \* arguments of the running c_drotm_ndarray invocation
    desc,   \* Routine form: the descriptors returned by arrays2ptrs
    loc,    \* locals of the kernel
    ret,    \* value returned to the caller
    mem0,   \* module memory at call entry
    memI,   \* module memory at the start of the current iteration
    arrs0,  \* the caller's arrays at call entry
    trace,  \* the addresses <<x, y>> loaded by the iterations of the call
    first,  \* the outcome of an earlier call that the caller keeps
    inst    \* the instance the entry points are called on

vars == <<mem, arrs, param, pc, call, k, desc, loc, ret, mem0, memI, arrs0,
          trace, first, inst>>

NoCall == [form |-> "none", entry |-> "none", N |-> 0,
           x |-> "a", strideX |-> 0, offsetX |-> 0,
           y |-> "b", strideY |-> 0, offsetY |-> 0,
           xptr |-> 0, yptr |-> 0, pptr |-> 0]
NoArgs == [N |-> 0, xptr |-> 0, strideX |-> 0, offsetX |-> 0,
           yptr |-> 0, strideY |-> 0, offsetY |-> 0, pptr |-> 0]
NoDesc == [ptr |-> 0, stride |-> 0, offset |-> 0, copy |-> FALSE]
NoLoc == [flag |-> 0, h11 |-> 0, h21 |-> 0, h12 |-> 0, h22 |-> 0,
          path |-> "none", i |-> 0, ix |-> 0, iy |-> 0,
          xa |-> 0, ya |-> 0, w |-> 0, z |-> 0]
NoRet == [kind |-> "none", val |-> 0]
\* no instance yet; and an instance that has been constructed on a memory and
\* initialized
NoInst == [kind |-> "none", arg |-> "none", calledWithNew |-> FALSE,
           parent |-> FALSE, memory |-> "none", initialized |-> FALSE,
           exported |-> FALSE]
ReadyInst == [NoInst EXCEPT !.kind = "any", !.arg = "memory", !.calledWithNew = TRUE,
                            !.parent = TRUE, !.memory = "memory",
                            !.initialized = TRUE, !.exported = TRUE]
NoFirst == [pc |-> "none", call |-> NoCall, mem |-> <<>>, arrs |-> <<>>,
            param |-> <<>>, ret |-> NoRet, trace |-> <<>>, mem0 |-> <<>>,
            arrs0 |-> <<>>]

\* ------------------------------------------------------- memory helpers
\* wasm address of element idx of the vector at byte offset ptr, as the
\* signed i32 the kernel computes (ptr + (idx << 3)); the sums of the model
\* are far from the i32 range, so no wrap-around is modelled
Addr(ptr, idx) == ptr + BYTES_PER_ELEMENT * idx
\* a load or store of 8 bytes at addr stays inside the memory; a negative
\* i32 is an unsigned address of at least 2^31, beyond the memory
InBounds(addr) == addr >= 0 /\ addr + BYTES_PER_ELEMENT <= MemBytes
Cell(addr) == addr \div BYTES_PER_ELEMENT
Load(m, addr) == m[Cell(addr)]
Store(m, addr, v) == [m EXCEPT ![Cell(addr)] = v]

\* the index of the i-th indexed element
Index(stride, offset, i) == offset + i * stride

\* ------------------------------------------------ external collaborators
\* @stdlib/strided-base-stride2offset, used by Routine.prototype.main
stride2offset_OffByOne(N, stride) == IF stride > 0 THEN 0 ELSE (0 - N) * stride
stride2offset(N, stride) == IF stride > 0 THEN 0 ELSE (1 - N) * stride

\* number of elements of a vector of "length" N that are copied
CopyLen(N) == IF N > 0 THEN N ELSE 0

\* @stdlib/wasm-base-arrays2ptrs on three ordinary arrays: each vector is
\* copied to module memory as a contiguous run of its indexed elements, one
\* after the other from byte 0, and is described by (ptr, stride 1, offset 0)
arrays2ptrs(N) ==
    [x |-> [ptr |-> 0, stride |-> 1, offset |-> 0, copy |-> TRUE],
     y |-> [ptr |-> CopyLen(N) * BYTES_PER_ELEMENT,
            stride |-> 1, offset |-> 0, copy |-> TRUE],
     p |-> [ptr |-> 2 * CopyLen(N) * BYTES_PER_ELEMENT,
            stride |-> 1, offset |-> 0, copy |-> TRUE]]

\* strided2object( 5, param, 1, 0 ): the number of elements of param that
\* are copied, whatever the length of param
ParamCopyLen_Whole(ps) == Cardinality(DOMAIN ps)
ParamCopyLen_OneShort(ps) == PARAM_LEN - 1
ParamCopyLen(ps) == PARAM_LEN

\* element j of param as the copy reads it: an element the array does not have
\* reads as undefined and is written as NaN
ParamElement(ps, j) == IF j \in DOMAIN ps THEN ps[j] ELSE NaN

\* module memory after arrays2ptrs has written the three copies
WriteCopies(m, N, xs, strideX, offsetX, ys, strideY, offsetY, ps) ==
    LET n == CopyLen(N)
    IN  [c \in DOMAIN m |->
            IF c < n THEN xs[Index(strideX, offsetX, c)]
            ELSE IF c < 2 * n THEN ys[Index(strideY, offsetY, c - n)]
            ELSE IF c < 2 * n + ParamCopyLen(ps) THEN ParamElement(ps, c - 2 * n)
            ELSE m[c]]

\* @stdlib/strided-base-read-dataview (ndarray): out[io] = view[bo] for
\* i = 0..N-1, in this order
RECURSIVE readDataView(_, _, _, _, _, _, _)
readDataView(n, m, byteStride, byteOffset, out, strideOut, offsetOut) ==
    IF n <= 0 THEN out
    ELSE readDataView(n - 1, m, byteStride, byteOffset + byteStride,
                      [out EXCEPT ![offsetOut] = Load(m, byteOffset)],
                      strideOut, offsetOut + strideOut)

\* every indexed element of a vector lies inside the caller's array
Indexed(N, stride, offset) == {Index(stride, offset, i) : i \in 0..(N - 1)}
FitsArray(N, stride, offset) == Indexed(N, stride, offset) \subseteq 0..(ArrLen - 1)

\* ------------------------------------------------------------------ Init
ParamOf(f, h) == [j \in 0..(PARAM_LEN - 1) |-> IF j = 0 THEN f ELSE h[j]]

Init ==
    /\ \E f \in Flags, h \in Hs :
        /\ param = ParamOf(f, h)
        /\ mem = [c \in 0..(MemCells - 1) |->
                    IF c >= Cell(PPtr) THEN ParamOf(f, h)[c - Cell(PPtr)]
                    ELSE c + 1]
    /\ arrs = [a \in ArrNames |->
                [i \in 0..(ArrLen - 1) |->
                    IF a = "a" THEN i + 1 ELSE i + 1 + ArrLen]]
    /\ pc = "idle"
    /\ call = NoCall
    /\ k = NoArgs
    /\ desc = [x |-> NoDesc, y |-> NoDesc, p |-> NoDesc]
    /\ loc = NoLoc
    /\ ret = NoRet
    /\ mem0 = mem
    /\ memI = mem
    /\ arrs0 = arrs
    /\ trace = <<>>
    /\ first = NoFirst
    /\ inst = ReadyInst

\* --------------------------------------------------------- Module (wasm)
\* c_drotm: the offsets it passes to c_drotm_ndarray
c_drotm_offset_OffByOne(N, stride) == IF stride <= 0 THEN (0 - N) * stride ELSE 0
c_drotm_offset(N, stride) == IF stride <= 0 THEN (1 - N) * stride ELSE 0

\* this._instance: set by the initialization of the instance; on an instance
\* that was not initialized the access to its exports throws
HasInstance_Always == TRUE
HasInstance == inst.initialized

\* Module.prototype.ndarray
Module_ndarray(N, xptr, strideX, offsetX, yptr, strideY, offsetY, pptr) ==
    /\ pc = "idle"
    /\ call' = [NoCall EXCEPT !.form = "module", !.entry = "ndarray", !.N = N,
                    !.strideX = strideX, !.offsetX = offsetX,
                    !.strideY = strideY, !.offsetY = offsetY,
                    !.xptr = xptr, !.yptr = yptr, !.pptr = pptr]
    /\ IF HasInstance
       THEN /\ k' = [N |-> N, xptr |-> xptr, strideX |-> strideX,
                     offsetX |-> offsetX, yptr |-> yptr, strideY |-> strideY,
                     offsetY |-> offsetY, pptr |-> pptr]
            /\ pc' = "entry"
       ELSE /\ k' = k
            /\ pc' = "throw"
    /\ mem0' = mem
    /\ memI' = mem
    /\ arrs0' = arrs
    /\ trace' = <<>>
    /\ UNCHANGED <<inst, first, mem, arrs, param, desc, loc, ret>>

ModuleNdarray ==
    /\ pc = "idle"
    /\ \E N \in Ns, xptr \in XPtrs, yptr \in YPtrs,
       strideX \in Strides, strideY \in Strides,
       offsetX \in Offsets, offsetY \in Offsets :
        Module_ndarray(N, xptr, strideX, offsetX, yptr, strideY, offsetY, PPtr)

\* Module.prototype.main: the export c_drotm derives the offsets and calls
\* c_drotm_ndarray
Module_main(N, xptr, strideX, yptr, strideY, pptr) ==
    /\ pc = "idle"
    /\ call' = [NoCall EXCEPT !.form = "module", !.entry = "main", !.N = N,
                    !.strideX = strideX, !.strideY = strideY,
                    !.xptr = xptr, !.yptr = yptr, !.pptr = pptr]
    /\ IF HasInstance
       THEN /\ k' = [N |-> N, xptr |-> xptr, strideX |-> strideX,
                     offsetX |-> c_drotm_offset(N, strideX),
                     yptr |-> yptr, strideY |-> strideY,
                     offsetY |-> c_drotm_offset(N, strideY),
                     pptr |-> pptr]
            /\ pc' = "entry"
       ELSE /\ k' = k
            /\ pc' = "throw"
    /\ mem0' = mem
    /\ memI' = mem
    /\ arrs0' = arrs
    /\ trace' = <<>>
    /\ UNCHANGED <<inst, first, mem, arrs, param, desc, loc, ret>>

ModuleMain ==
    /\ pc = "idle"
    /\ \E N \in Ns, xptr \in XPtrs, yptr \in YPtrs,
       strideX \in Strides, strideY \in Strides :
        Module_main(N, xptr, strideX, yptr, strideY, PPtr)

\* --------------------------------------------------------------- Routine
\* Routine.prototype.ndarray up to the call of Module.prototype.ndarray
Routine_ndarray(entry, N, x, strideX, offsetX, y, strideY, offsetY) ==
    /\ pc = "idle"
    /\ FitsArray(N, strideX, offsetX)
    /\ FitsArray(N, strideY, offsetY)
    /\ call' = [NoCall EXCEPT !.form = "routine", !.entry = entry, !.N = N,
                    !.x = x, !.strideX = strideX, !.offsetX = offsetX,
                    !.y = y, !.strideY = strideY, !.offsetY = offsetY]
    /\ desc' = arrays2ptrs(N)
    /\ mem' = WriteCopies(mem, N, arrs[x], strideX, offsetX,
                          arrs[y], strideY, offsetY, param)
    /\ k' = [N |-> N,
             xptr |-> desc'.x.ptr, strideX |-> desc'.x.stride,
             offsetX |-> desc'.x.offset,
             yptr |-> desc'.y.ptr, strideY |-> desc'.y.stride,
             offsetY |-> desc'.y.offset,
             pptr |-> desc'.p.ptr]
    /\ pc' = "entry"
    /\ mem0' = mem
    /\ memI' = mem'
    /\ arrs0' = arrs
    /\ trace' = <<>>
    /\ UNCHANGED <<inst, first, arrs, param, loc, ret>>

RoutineNdarray ==
    /\ pc = "idle"
    /\ \E N \in Ns, x \in ArrNames, y \in ArrNames,
       strideX \in Strides, strideY \in Strides,
       offsetX \in Offsets, offsetY \in Offsets :
        Routine_ndarray("ndarray", N, x, strideX, offsetX, y, strideY, offsetY)

\* Routine.prototype.main
RoutineMain ==
    /\ pc = "idle"
    /\ \E N \in Ns, x \in ArrNames, y \in ArrNames,
       strideX \in Strides, strideY \in Strides :
        Routine_ndarray("main", N, x, strideX, stride2offset(N, strideX),
                        y, strideY, stride2offset(N, strideY))

\* ------------------------------------------- the kernel c_drotm_ndarray
\* byte address of param[j] (f64.load with constant offset 8*j)
PAddr(j) == k.pptr + BYTES_PER_ELEMENT * j

\* the loop nest selected by the stride test
PathOf(strideX, strideY) ==
    IF strideX = strideY /\ strideX > 0 THEN "equal" ELSE "general"

\* the update formula selected by the flag tests (flag /= -2 here)
BranchOf_NoZero(flag) ==
    IF flag < 0 THEN "full" ELSE "one"
BranchOf_Recognized(flag) ==
    IF flag = -1 THEN "full" ELSE IF flag = 0 THEN "zero" ELSE "one"
BranchOf(flag) ==
    IF flag < 0 THEN "full" ELSE IF flag = 0 THEN "zero" ELSE "one"

\* the coefficients each branch loads before its loop; the others are not
\* loaded
CoefficientsOf(m, flag) ==
    LET b == BranchOf(flag)
    IN  [h11 |-> IF b \in {"full", "one"} THEN Load(m, PAddr(1)) ELSE 0,
         h21 |-> IF b \in {"full", "zero"} THEN Load(m, PAddr(2)) ELSE 0,
         h12 |-> IF b \in {"full", "zero"} THEN Load(m, PAddr(3)) ELSE 0,
         h22 |-> IF b \in {"full", "one"} THEN Load(m, PAddr(4)) ELSE 0]

\* the index the kernel uses for y in the current iteration
YIndexOf(l) == IF l.path = "equal" THEN l.ix ELSE l.iy

\* the values stored to x and to y
NewX_RereadParam(l) ==
    CASE BranchOf(l.flag) = "full" ->
            l.w * Load(mem, PAddr(1)) + Load(mem, PAddr(3)) * l.z
      [] BranchOf(l.flag) = "zero" -> l.z * Load(mem, PAddr(3)) + l.w
      [] BranchOf(l.flag) = "one" -> l.w * Load(mem, PAddr(1)) + l.z
NewX(l) ==
    CASE BranchOf(l.flag) = "full" -> l.w * l.h11 + l.h12 * l.z
      [] BranchOf(l.flag) = "zero" -> l.z * l.h12 + l.w
      [] BranchOf(l.flag) = "one" -> l.w * l.h11 + l.z

\* the x operand of the value stored to y: the local holding the loaded w
YOperandW_Reload(m, l) == Load(m, l.xa)
YOperandW(m, l) == l.w

NewY_NoNegate(m, l) ==
    CASE BranchOf(l.flag) = "full" -> YOperandW(m, l) * l.h21 + l.h22 * l.z
      [] BranchOf(l.flag) = "zero" -> l.z + YOperandW(m, l) * l.h21
      [] BranchOf(l.flag) = "one" -> l.z * l.h22 + YOperandW(m, l)
NewY(m, l) ==
    CASE BranchOf(l.flag) = "full" -> YOperandW(m, l) * l.h21 + l.h22 * l.z
      [] BranchOf(l.flag) = "zero" -> l.z + YOperandW(m, l) * l.h21
      [] BranchOf(l.flag) = "one" -> l.z * l.h22 - YOperandW(m, l)

\* the guard on N (br_if on N <= 0)
GuardN_NoNegative(N) == N = 0
GuardN(N) == N <= 0

\* the guard on the flag (br_if on flag == -2.0)
IsIdentityFlag_Sign(flag) == flag = 2
IsIdentityFlag_Unrecognized(flag) == flag \notin {-1, 0, 1}
IsIdentityFlag(flag) == flag = -2

\* N <= 0, or flag == -2: return without touching x and y
KernelGuard ==
    /\ pc = "entry"
    /\ IF GuardN(k.N) THEN pc' = "ret"
       ELSE IF ~InBounds(PAddr(0)) THEN pc' = "trap"
       ELSE /\ IsIdentityFlag(Load(mem, PAddr(0)))
            /\ pc' = "ret"
    /\ UNCHANGED <<inst, mem, arrs, param, call, k, desc, loc, ret, mem0, memI, arrs0, trace, first>>

\* load the flag and the coefficients, initialise the loop
KernelSetup ==
    /\ pc = "entry"
    /\ ~GuardN(k.N)
    /\ InBounds(PAddr(0))
    /\ ~IsIdentityFlag(Load(mem, PAddr(0)))
    /\ LET flag == Load(mem, PAddr(0))
       IN  IF ~InBounds(PAddr(PARAM_LEN - 1))
           THEN pc' = "trap" /\ UNCHANGED loc
           ELSE /\ pc' = "loop"
                /\ loc' = [flag |-> flag,
                           h11 |-> CoefficientsOf(mem, flag).h11,
                           h21 |-> CoefficientsOf(mem, flag).h21,
                           h12 |-> CoefficientsOf(mem, flag).h12,
                           h22 |-> CoefficientsOf(mem, flag).h22,
                           path |-> PathOf(k.strideX, k.strideY),
                           i |-> 0, ix |-> k.offsetX, iy |-> k.offsetY,
                           xa |-> 0, ya |-> 0, w |-> 0, z |-> 0]
    /\ UNCHANGED <<inst, mem, arrs, param, call, k, desc, ret, mem0, memI, arrs0, trace, first>>

\* loop test i == N
LoopDone_OneEarly(l) == l.i + 1 = k.N
LoopDone(l) == l.i = k.N

LoopExit ==
    /\ pc = "loop"
    /\ LoopDone(loc)
    /\ pc' = "ret"
    /\ UNCHANGED <<inst, mem, arrs, param, call, k, desc, loc, ret, mem0, memI, arrs0, trace, first>>

\* the module memory after a trap: the stores of the iterations that have
\* completed stay
MemAfterTrap_RolledBack == mem0
MemAfterTrap == mem

\* the two loads of an iteration; an access outside the memory traps
LoopRead ==
    /\ pc = "loop"
    /\ ~LoopDone(loc)
    /\ LET xa == Addr(k.xptr, loc.ix)
           ya == Addr(k.yptr, YIndexOf(loc))
       IN  IF InBounds(xa) /\ InBounds(ya)
           THEN /\ loc' = [loc EXCEPT !.xa = xa, !.ya = ya,
                                      !.w = Load(mem, xa), !.z = Load(mem, ya)]
                /\ trace' = Append(trace, <<xa, ya>>)
                /\ pc' = "storeX"
                /\ mem' = mem
           ELSE /\ pc' = "trap"
                /\ mem' = MemAfterTrap
                /\ UNCHANGED <<inst, loc, trace>>
    /\ memI' = mem
    /\ UNCHANGED <<inst, arrs, param, call, k, desc, ret, mem0, arrs0, first>>

\* the store to x
StoreX ==
    /\ pc = "storeX"
    /\ mem' = Store(mem, loc.xa, NewX(loc))
    /\ pc' = "storeY"
    /\ UNCHANGED <<inst, arrs, param, call, k, desc, loc, ret, mem0, memI, arrs0, trace, first>>

\* the store to y and the increments
StoreY ==
    /\ pc = "storeY"
    /\ mem' = Store(mem, loc.ya, NewY(mem, loc))
    /\ loc' = [loc EXCEPT !.i = @ + 1,
                          !.ix = @ + k.strideX,
                          !.iy = IF loc.path = "equal" THEN @ ELSE @ + k.strideY]
    /\ pc' = "loop"
    /\ UNCHANGED <<inst, arrs, param, call, k, desc, ret, mem0, memI, arrs0, trace, first>>

\* ------------------------------------------------------------- returning
\* Module.prototype.main and Module.prototype.ndarray return yptr
ModuleReturnValue_X == call.xptr
ModuleReturnValue == call.yptr

ModuleReturn ==
    /\ pc = "ret"
    /\ call.form = "module"
    /\ ret' = [kind |-> "ptr", val |-> ModuleReturnValue]
    /\ pc' = "done"
    /\ UNCHANGED <<inst, mem, arrs, param, call, k, desc, loc, mem0, memI, arrs0, trace, first>>

\* Routine.prototype.ndarray: x is copied back when it was copied
CopyBackX_Never == FALSE
CopyBackX == desc.x.copy

\* the index of the caller's x that receives the first element read back
ReadBackOffsetX_OfY == call.offsetY
ReadBackOffsetX == call.offsetX

\* the caller's array that receives the elements of x read back: the
\* argument x, never param
ReadBackDestX_Param == "param"
ReadBackDestX == call.x

\* Routine.prototype.ndarray: copy x back when it was copied
RoutineReadX ==
    /\ pc = "ret"
    /\ call.form = "routine"
    /\ LET out(a) == readDataView(call.N, mem,
                                  desc.x.stride * BYTES_PER_ELEMENT, desc.x.ptr,
                                  a, call.strideX, ReadBackOffsetX)
       IN  /\ arrs' = IF CopyBackX /\ ReadBackDestX \in ArrNames
                      THEN [arrs EXCEPT ![ReadBackDestX] = out(@)]
                      ELSE arrs
           /\ param' = IF CopyBackX /\ ReadBackDestX \notin ArrNames
                       THEN out(param)
                       ELSE param
    /\ pc' = "readY"
    /\ UNCHANGED <<inst, mem, call, k, desc, loc, ret, mem0, memI, arrs0, trace, first>>

\* the byte stride of the read-back of y: E.stride * E.BYTES_PER_ELEMENT
ReadBackByteStrideY_Elements == desc.y.stride
ReadBackByteStrideY == desc.y.stride * BYTES_PER_ELEMENT

\* Routine.prototype.ndarray: copy y back when it was copied, return y
RoutineReadY ==
    /\ pc = "readY"
    /\ arrs' = IF desc.y.copy
               THEN [arrs EXCEPT ![call.y] =
                        readDataView(call.N, mem,
                                     ReadBackByteStrideY, desc.y.ptr,
                                     @, call.strideY, call.offsetY)]
               ELSE arrs
    /\ ret' = [kind |-> "array", val |-> call.y]
    /\ pc' = "done"
    /\ UNCHANGED <<inst, mem, param, call, k, desc, loc, mem0, memI, arrs0, trace, first>>

Next ==
    \/ ModuleNdarray
    \/ ModuleMain
    \/ RoutineNdarray
    \/ RoutineMain
    \/ KernelGuard
    \/ KernelSetup
    \/ LoopExit
    \/ LoopRead
    \/ StoreX
    \/ StoreY
    \/ ModuleReturn
    \/ RoutineReadX
    \/ RoutineReadY

Spec == Init /\ [][Next]_vars

\* ------------------------------------------------- a caller of two calls
\* the caller keeps the outcome of the call that has ended
Outcome ==
    [pc |-> pc, call |-> call, mem |-> mem, arrs |-> arrs, param |-> param,
     ret |-> ret, trace |-> trace, mem0 |-> mem0, arrs0 |-> arrs0]

\* the caller keeps the results and writes the original inputs back
RestoreInputs ==
    /\ pc \in {"done", "trap"}
    /\ first = NoFirst
    /\ first' = Outcome
    /\ mem' = mem0
    /\ arrs' = arrs0
    /\ pc' = "idle"
    /\ UNCHANGED <<inst, param, call, k, desc, loc, ret, mem0, memI, arrs0, trace>>


\* the offset a convenience form derives from a stride
MainOffset(N, stride) == IF stride < 0 THEN (1 - N) * stride ELSE 0

\* a first call through main, then the same inputs through ndarray with the
\* offsets derived from the strides
FirstRoutineMain == first = NoFirst /\ RoutineMain
FirstModuleMain == first = NoFirst /\ ModuleMain

RoutineNdarrayAfterMain ==
    /\ first /= NoFirst
    /\ first.call.form = "routine"
    /\ Routine_ndarray("ndarray", first.call.N,
            first.call.x, first.call.strideX,
            MainOffset(first.call.N, first.call.strideX),
            first.call.y, first.call.strideY,
            MainOffset(first.call.N, first.call.strideY))

ModuleNdarrayAfterMain ==
    /\ first /= NoFirst
    /\ first.call.form = "module"
    /\ Module_ndarray(first.call.N,
            first.call.xptr, first.call.strideX,
            MainOffset(first.call.N, first.call.strideX),
            first.call.yptr, first.call.strideY,
            MainOffset(first.call.N, first.call.strideY),
            first.call.pptr)

NextMainNdarray ==
    \/ FirstRoutineMain
    \/ FirstModuleMain
    \/ KernelGuard
    \/ KernelSetup
    \/ LoopExit
    \/ LoopRead
    \/ StoreX
    \/ StoreY
    \/ ModuleReturn
    \/ RoutineReadX
    \/ RoutineReadY
    \/ RestoreInputs
    \/ RoutineNdarrayAfterMain
    \/ ModuleNdarrayAfterMain

SpecMainNdarray == Init /\ [][NextMainNdarray]_vars

\* a first call of Module.prototype.ndarray that walks x forward (stride
\* s > 0 from offset o), then the same call on the inputs with the storage of
\* x reversed, walking x backward (stride -s from offset o + (N-1)*s)
FirstForwardX ==
    /\ first = NoFirst
    /\ pc = "idle"
    /\ \E N \in 1..MaxN, xptr \in XPtrs, yptr \in YPtrs,
          strideX \in 1..MaxStride, strideY \in Strides,
          offsetX \in Offsets, offsetY \in Offsets :
        Module_ndarray(N, xptr, strideX, offsetX, yptr, strideY, offsetY, PPtr)

\* the cell of the i-th indexed element of x in the call that has ended
XCellOf(i) == Cell(Addr(call.xptr, Index(call.strideX, call.offsetX, i)))

\* the caller keeps the results and writes the original inputs back with the
\* indexed elements of x in reverse order
ReverseX ==
    /\ pc = "done"
    /\ first = NoFirst
    /\ first' = Outcome
    /\ mem' = [c \in DOMAIN mem0 |->
                IF \E i \in 0..(call.N - 1) : c = XCellOf(i)
                THEN mem0[XCellOf(call.N - 1 -
                        (CHOOSE i \in 0..(call.N - 1) : c = XCellOf(i)))]
                ELSE mem0[c]]
    /\ pc' = "idle"
    /\ UNCHANGED <<inst, arrs, param, call, k, desc, loc, ret, mem0, memI, arrs0, trace>>

SecondBackwardX ==
    /\ first /= NoFirst
    /\ Module_ndarray(first.call.N, first.call.xptr, 0 - first.call.strideX,
            first.call.offsetX + (first.call.N - 1) * first.call.strideX,
            first.call.yptr, first.call.strideY, first.call.offsetY,
            first.call.pptr)

NextSymmetry ==
    \/ FirstForwardX
    \/ KernelGuard
    \/ KernelSetup
    \/ LoopExit
    \/ LoopRead
    \/ StoreX
    \/ StoreY
    \/ ModuleReturn
    \/ ReverseX
    \/ SecondBackwardX

SpecSymmetry == Init /\ [][NextSymmetry]_vars

\* --------------------------------------------- the documented examples
\* the parameter arrays of the examples of main.js and of module.js
DocParams == {<<0, 0, 2, -3, 0>>, <<1, 1, 1, 1, 1>>}
\* the vector lengths: that of the examples, and none
DocNs == {0, DocN}
\* the pointers of the example of module.js
DocXPtr == 0 * BYTES_PER_ELEMENT
DocYPtr == DocN * BYTES_PER_ELEMENT
DocPPtr == 2 * DocN * BYTES_PER_ELEMENT

\* x = [1,2,3,4,5], y = [1,1,1,1,1], as arrays and as vectors written to
\* the module memory at DocXPtr, DocYPtr, with param at DocPPtr
InitDoc ==
    /\ \E p \in DocParams :
        /\ param = [j \in 0..(PARAM_LEN - 1) |-> p[j + 1]]
        /\ mem = [c \in 0..(MemCells - 1) |->
                    IF c >= Cell(DocPPtr) THEN p[c - Cell(DocPPtr) + 1]
                    ELSE IF c >= Cell(DocYPtr) THEN 1
                    ELSE c + 1]
    /\ arrs = [a \in ArrNames |->
                [i \in 0..(ArrLen - 1) |-> IF a = "a" THEN i + 1 ELSE 1]]
    /\ pc = "idle"
    /\ call = NoCall
    /\ k = NoArgs
    /\ desc = [x |-> NoDesc, y |-> NoDesc, p |-> NoDesc]
    /\ loc = NoLoc
    /\ ret = NoRet
    /\ mem0 = mem
    /\ memI = mem
    /\ arrs0 = arrs
    /\ trace = <<>>
    /\ first = NoFirst
    /\ inst = ReadyInst

\* drotm.main( x.length, x, 1, y, 1, param )
DocRoutineMain ==
    /\ pc = "idle"
    /\ \E N \in DocNs :
        Routine_ndarray("main", N, "a", 1, stride2offset(N, 1),
                        "b", 1, stride2offset(N, 1))

\* drotm.ndarray( x.length, x, 1, 0, y, 1, 0, param )
DocRoutineNdarray ==
    /\ pc = "idle"
    /\ \E N \in DocNs :
        Routine_ndarray("ndarray", N, "a", 1, 0, "b", 1, 0)

\* drotm.main( N, xptr, 1, yptr, 1, pptr )
DocModuleMain ==
    /\ pc = "idle"
    /\ \E N \in DocNs :
        Module_main(N, DocXPtr, 1, DocYPtr, 1, DocPPtr)

\* drotm.ndarray( N, xptr, 1, 0, yptr, 1, 0, pptr )
DocModuleNdarray ==
    /\ pc = "idle"
    /\ \E N \in DocNs :
        Module_ndarray(N, DocXPtr, 1, 0, DocYPtr, 1, 0, DocPPtr)

NextDoc ==
    \/ DocRoutineMain
    \/ DocRoutineNdarray
    \/ DocModuleMain
    \/ DocModuleNdarray
    \/ KernelGuard
    \/ KernelSetup
    \/ LoopExit
    \/ LoopRead
    \/ StoreX
    \/ StoreY
    \/ ModuleReturn
    \/ RoutineReadX
    \/ RoutineReadY

SpecDoc == InitDoc /\ [][NextDoc]_vars

\* ------------------------------------------- a rotation and its inverse
\* invertible matrices H whose inverse is again a parameter array: flag -1
\* with an integer matrix of determinant 1, and flag 0 with h21 = 0
RoundTripParams == {<<-1, 2, 3, 5, 8>>, <<0, 0, 0, 3, 0>>}

\* the parameter array of the inverse of the matrix of p
InverseParam(p) ==
    IF p[1] < 0
    THEN <<p[1], p[5], 0 - p[3], 0 - p[4], p[2]>>
    ELSE <<p[1], p[2], 0 - p[3], 0 - p[4], p[5]>>

InitRoundTrip ==
    /\ \E p \in RoundTripParams :
        /\ param = [j \in 0..(PARAM_LEN - 1) |-> p[j + 1]]
        /\ mem = [c \in 0..(MemCells - 1) |->
                    IF c >= Cell(PPtr) THEN p[c - Cell(PPtr) + 1]
                    ELSE c + 1]
    /\ arrs = [a \in ArrNames |->
                [i \in 0..(ArrLen - 1) |->
                    IF a = "a" THEN i + 1 ELSE i + 1 + ArrLen]]
    /\ pc = "idle"
    /\ call = NoCall
    /\ k = NoArgs
    /\ desc = [x |-> NoDesc, y |-> NoDesc, p |-> NoDesc]
    /\ loc = NoLoc
    /\ ret = NoRet
    /\ mem0 = mem
    /\ memI = mem
    /\ arrs0 = arrs
    /\ trace = <<>>
    /\ first = NoFirst
    /\ inst = ReadyInst

FirstRotation == first = NoFirst /\ ModuleNdarray

\* the caller keeps the outcome and writes the parameters of the inverse
\* over those of H
WriteInverse ==
    /\ pc = "done"
    /\ first = NoFirst
    /\ first' = Outcome
    /\ LET p == [j \in 1..PARAM_LEN |-> Load(mem, Addr(call.pptr, j - 1))]
       IN  mem' = [c \in DOMAIN mem |->
                    IF c >= Cell(call.pptr) /\ c < Cell(call.pptr) + PARAM_LEN
                    THEN InverseParam(p)[c - Cell(call.pptr) + 1]
                    ELSE mem[c]]
    /\ pc' = "idle"
    /\ UNCHANGED <<inst, arrs, param, call, k, desc, loc, ret, mem0, memI, arrs0, trace>>

\* the same N, strides and offsets again
InverseRotation ==
    /\ first /= NoFirst
    /\ Module_ndarray(first.call.N, first.call.xptr, first.call.strideX,
            first.call.offsetX, first.call.yptr, first.call.strideY,
            first.call.offsetY, first.call.pptr)

NextRoundTrip ==
    \/ FirstRotation
    \/ KernelGuard
    \/ KernelSetup
    \/ LoopExit
    \/ LoopRead
    \/ StoreX
    \/ StoreY
    \/ ModuleReturn
    \/ WriteInverse
    \/ InverseRotation

SpecRoundTrip == InitRoundTrip /\ [][NextRoundTrip]_vars

\* -------------------------------------- param arrays of another length
\* param arrays of four and of six elements; the flags of the short ones
\* select formulas that do not use the missing param[4]
OddParams == {<<0, 0, 2, -3>>, <<-2, 1, 1, 1>>,
              <<-1, 2, 3, 5, 7, -9>>, <<1, 2, 3, 5, 7, -9>>}

InitParamLength ==
    /\ \E p \in OddParams : param = [j \in 0..(Len(p) - 1) |-> p[j + 1]]
    /\ mem = [c \in 0..(MemCells - 1) |-> c + 1]
    /\ arrs = [a \in ArrNames |->
                [i \in 0..(ArrLen - 1) |->
                    IF a = "a" THEN i + 1 ELSE i + 1 + ArrLen]]
    /\ pc = "idle"
    /\ call = NoCall
    /\ k = NoArgs
    /\ desc = [x |-> NoDesc, y |-> NoDesc, p |-> NoDesc]
    /\ loc = NoLoc
    /\ ret = NoRet
    /\ mem0 = mem
    /\ memI = mem
    /\ arrs0 = arrs
    /\ trace = <<>>
    /\ first = NoFirst
    /\ inst = ReadyInst

NextParamLength ==
    \/ RoutineNdarray
    \/ RoutineMain
    \/ KernelGuard
    \/ KernelSetup
    \/ LoopExit
    \/ LoopRead
    \/ StoreX
    \/ StoreY
    \/ RoutineReadX
    \/ RoutineReadY

SpecParamLength == InitParamLength /\ [][NextParamLength]_vars

\* ------------------------------------------- constructing and loading
\* arguments of the Module constructor: a WebAssembly memory and values that
\* are none
NotMemories == {"string", "null", "object"}
CtorArgs == {"memory"} \cup NotMemories

\* @stdlib/assert-is-wasm-memory
isWebAssemblyMemory_Object(v) == v \in {"memory", "object"}
isWebAssemblyMemory(v) == v = "memory"

\* nothing has been constructed and nothing is in memory but data
InitLifecycle ==
    /\ \E f \in Flags, h \in Hs :
        /\ param = ParamOf(f, h)
        /\ mem = [c \in 0..(MemCells - 1) |->
                    IF c >= Cell(PPtr) THEN ParamOf(f, h)[c - Cell(PPtr)]
                    ELSE c + 1]
    /\ arrs = [a \in ArrNames |->
                [i \in 0..(ArrLen - 1) |->
                    IF a = "a" THEN i + 1 ELSE i + 1 + ArrLen]]
    /\ pc = "idle"
    /\ call = NoCall
    /\ k = NoArgs
    /\ desc = [x |-> NoDesc, y |-> NoDesc, p |-> NoDesc]
    /\ loc = NoLoc
    /\ ret = NoRet
    /\ mem0 = mem
    /\ memI = mem
    /\ arrs0 = arrs
    /\ trace = <<>>
    /\ first = NoFirst
    /\ inst = NoInst

\* Module( memory ) or new Module( memory )
ModuleCalled ==
    /\ pc = "idle"
    /\ inst.kind = "none"
    /\ \E arg \in CtorArgs, withNew \in BOOLEAN :
        /\ inst' = [NoInst EXCEPT !.arg = arg, !.calledWithNew = withNew]
        /\ pc' = IF withNew THEN "ctorCheck" ELSE "ctorRenew"
    /\ UNCHANGED <<mem, arrs, param, call, k, desc, loc, ret, mem0, memI, arrs0, trace, first>>

\* if ( !( this instanceof Module ) ) return new Module( memory )
ModuleRenew ==
    /\ pc = "ctorRenew"
    /\ pc' = "ctorCheck"
    /\ UNCHANGED <<inst, mem, arrs, param, call, k, desc, loc, ret, mem0, memI, arrs0, trace, first>>

\* if ( !isWebAssemblyMemory( memory ) ) throw new TypeError( ... )
ModuleCheckMemory ==
    /\ pc = "ctorCheck"
    /\ IF isWebAssemblyMemory(inst.arg)
       THEN pc' = "ctorParent" /\ ret' = ret
       ELSE pc' = "throw" /\ ret' = [kind |-> "TypeError", val |-> 0]
    /\ UNCHANGED <<inst, mem, arrs, param, call, k, desc, loc, mem0, memI, arrs0, trace, first>>

\* WasmModule.call( this, wasmBinary, memory, ... ); return this
ModuleParent ==
    /\ pc = "ctorParent"
    /\ inst' = [inst EXCEPT !.kind = "Module", !.parent = TRUE, !.memory = inst.arg]
    /\ ret' = [kind |-> "Module", val |-> 0]
    /\ pc' = "idle"
    /\ UNCHANGED <<mem, arrs, param, call, k, desc, loc, mem0, memI, arrs0, trace, first>>

\* initializeSync() of a constructed instance
InitializeSync ==
    /\ pc = "idle"
    /\ inst.parent
    /\ ~inst.initialized
    /\ inst' = [inst EXCEPT !.initialized = TRUE]
    /\ UNCHANGED <<pc, mem, arrs, param, call, k, desc, loc, ret, mem0, memI, arrs0, trace, first>>

\* main.js: var drotm = new Routine()
LoadNewRoutine ==
    /\ pc = "idle"
    /\ inst.kind = "none"
    /\ inst' = [NoInst EXCEPT !.kind = "Routine", !.arg = "memory",
                              !.calledWithNew = TRUE, !.parent = TRUE,
                              !.memory = "memory"]
    /\ UNCHANGED <<pc, mem, arrs, param, call, k, desc, loc, ret, mem0, memI, arrs0, trace, first>>

\* main.js: module.exports = drotm, the statement after drotm.initializeSync()
LoadExport ==
    /\ pc = "idle"
    /\ inst.kind = "Routine"
    /\ inst.initialized
    /\ ~inst.exported
    /\ inst' = [inst EXCEPT !.exported = TRUE]
    /\ UNCHANGED <<pc, mem, arrs, param, call, k, desc, loc, ret, mem0, memI, arrs0, trace, first>>

\* the methods of a Module that has been constructed
ModuleNdarrayOnModule == inst.kind = "Module" /\ call = NoCall /\ ModuleNdarray
ModuleMainOnModule == inst.kind = "Module" /\ call = NoCall /\ ModuleMain

\* the methods of the default export
RoutineNdarrayOnDefault ==
    inst.kind = "Routine" /\ inst.exported /\ call = NoCall /\ RoutineNdarray
RoutineMainOnDefault ==
    inst.kind = "Routine" /\ inst.exported /\ call = NoCall /\ RoutineMain

NextLifecycle ==
    \/ ModuleCalled
    \/ ModuleRenew
    \/ ModuleCheckMemory
    \/ ModuleParent
    \/ InitializeSync
    \/ LoadNewRoutine
    \/ LoadExport
    \/ ModuleNdarrayOnModule
    \/ ModuleMainOnModule
    \/ RoutineNdarrayOnDefault
    \/ RoutineMainOnDefault
    \/ KernelGuard
    \/ KernelSetup
    \/ LoopExit
    \/ LoopRead
    \/ StoreX
    \/ StoreY
    \/ ModuleReturn
    \/ RoutineReadX
    \/ RoutineReadY

SpecLifecycle == InitLifecycle /\ [][NextLifecycle]_vars

\* --------------------------------------- two calls on the same instance
\* a first call on the default routine, which leaves its copies of x, y and
\* param in the module memory
FirstOnInstance ==
    /\ first = NoFirst
    /\ pc = "idle"
    /\ \E N \in 1..MaxN :
        Routine_ndarray("ndarray", N, "a", 1, 0, "b", 1, 0)

\* the call has returned; the caller keeps the arrays as they are and the
\* instance keeps its memory
NextCallOnInstance ==
    /\ pc = "done"
    /\ first = NoFirst
    /\ first' = Outcome
    /\ pc' = "idle"
    /\ UNCHANGED <<inst, mem, arrs, param, call, k, desc, loc, ret, mem0, memI, arrs0, trace>>

SecondRoutineNdarray == first /= NoFirst /\ RoutineNdarray
SecondRoutineMain == first /= NoFirst /\ RoutineMain

NextRepeated ==
    \/ FirstOnInstance
    \/ NextCallOnInstance
    \/ SecondRoutineNdarray
    \/ SecondRoutineMain
    \/ KernelGuard
    \/ KernelSetup
    \/ LoopExit
    \/ LoopRead
    \/ StoreX
    \/ StoreY
    \/ RoutineReadX
    \/ RoutineReadY

SpecRepeated == Init /\ [][NextRepeated]_vars

\* ------------------------------------------ param overlapping x and y
\* the pointer of a param that lies where the vectors lie
OverlapPPtr == 0 * BYTES_PER_ELEMENT

\* the module memory with the parameters in its first cells
InitOverlap ==
    /\ \E f \in Flags, h \in Hs :
        /\ param = ParamOf(f, h)
        /\ mem = [c \in 0..(MemCells - 1) |->
                    IF c < PARAM_LEN THEN ParamOf(f, h)[c] ELSE c + 1]
    /\ arrs = [a \in ArrNames |->
                [i \in 0..(ArrLen - 1) |->
                    IF a = "a" THEN i + 1 ELSE i + 1 + ArrLen]]
    /\ pc = "idle"
    /\ call = NoCall
    /\ k = NoArgs
    /\ desc = [x |-> NoDesc, y |-> NoDesc, p |-> NoDesc]
    /\ loc = NoLoc
    /\ ret = NoRet
    /\ mem0 = mem
    /\ memI = mem
    /\ arrs0 = arrs
    /\ trace = <<>>
    /\ first = NoFirst
    /\ inst = ReadyInst

ModuleNdarrayOverlap ==
    /\ pc = "idle"
    /\ \E N \in Ns, xptr \in XPtrs, yptr \in YPtrs,
       strideX \in Strides, strideY \in Strides,
       offsetX \in Offsets, offsetY \in Offsets :
        Module_ndarray(N, xptr, strideX, offsetX, yptr, strideY, offsetY,
                       OverlapPPtr)

NextOverlap ==
    \/ ModuleNdarrayOverlap
    \/ KernelGuard
    \/ KernelSetup
    \/ LoopExit
    \/ LoopRead
    \/ StoreX
    \/ StoreY
    \/ ModuleReturn

SpecOverlap == InitOverlap /\ [][NextOverlap]_vars

\* ------------------------------------------------ a call runs to its end
\* the kernel is one synchronous computation: a step that can be taken is
\* taken
ModuleNdarrayFromOrigin ==
    /\ pc = "idle"
    /\ \E N \in Ns, strideX \in Strides, strideY \in Strides :
        Module_ndarray(N, 0, strideX, 0, 0, strideY, 0, PPtr)

NextKernel ==
    \/ ModuleNdarrayFromOrigin
    \/ ModuleMain
    \/ KernelGuard
    \/ KernelSetup
    \/ LoopExit
    \/ LoopRead
    \/ StoreX
    \/ StoreY
    \/ ModuleReturn

SpecKernelFair == Init /\ [][NextKernel]_vars /\ WF_vars(NextKernel)

\* -------------------------------------- a flag and the flag it acts as
\* the recognised flag whose formula a flag selects (-2: none)
FormulaOf(flag) ==
    IF flag = -2 THEN -2 ELSE IF flag < 0 THEN -1 ELSE IF flag = 0 THEN 0 ELSE 1

FirstWithAnyFlag == first = NoFirst /\ ModuleNdarray

\* the caller keeps the outcome, writes the original inputs back and
\* replaces the flag by the recognised flag of the same sign
WriteRecognizedFlag ==
    /\ pc \in {"done", "trap"}
    /\ first = NoFirst
    /\ first' = Outcome
    /\ mem' = [mem0 EXCEPT ![Cell(call.pptr)] = FormulaOf(@)]
    /\ pc' = "idle"
    /\ UNCHANGED <<inst, arrs, param, call, k, desc, loc, ret, mem0, memI, arrs0, trace>>

SecondWithRecognizedFlag ==
    /\ first /= NoFirst
    /\ Module_ndarray(first.call.N, first.call.xptr, first.call.strideX,
            first.call.offsetX, first.call.yptr, first.call.strideY,
            first.call.offsetY, first.call.pptr)

NextFlagPair ==
    \/ FirstWithAnyFlag
    \/ WriteRecognizedFlag
    \/ SecondWithRecognizedFlag
    \/ KernelGuard
    \/ KernelSetup
    \/ LoopExit
    \/ LoopRead
    \/ StoreX
    \/ StoreY
    \/ ModuleReturn

SpecFlagPair == Init /\ [][NextFlagPair]_vars

\* --------------------------------------------------------------- typing
TypeOK ==
    /\ pc \in {"idle", "entry", "loop", "storeX", "storeY", "ret", "readY",
               "done", "trap", "throw", "ctorRenew", "ctorCheck",
               "ctorParent"}
    /\ DOMAIN mem = 0..(MemCells - 1)

\* ============================================================== claims
\* a call has been made
Called == call.form /= "none"

\* param[j] as it was at call entry
EntryParam(j) ==
    IF call.form = "routine" THEN param[j] ELSE mem0[Cell(call.pptr) + j]
EntryFlag == EntryParam(0)

\* the rotation of one pair (w, z) as the specification defines it
RefX(flag, w, z) ==
    CASE flag = -1 -> w * EntryParam(1) + z * EntryParam(3)
      [] flag = 0 -> w + z * EntryParam(3)
      [] flag = 1 -> w * EntryParam(1) + z
      [] OTHER -> w
RefY(flag, w, z) ==
    CASE flag = -1 -> w * EntryParam(2) + z * EntryParam(4)
      [] flag = 0 -> w * EntryParam(2) + z
      [] flag = 1 -> z * EntryParam(4) - w
      [] OTHER -> z

\* the addresses the specification assigns to the pair of iteration j
SpecXA(j) == Addr(k.xptr, Index(k.strideX, k.offsetX, j))
SpecYA(j) == Addr(k.yptr, Index(k.strideY, k.offsetY, j))

\* the recognised flag whose formula the kernel applies to the running call
BranchFlag ==
    CASE BranchOf(loc.flag) = "full" -> -1
      [] BranchOf(loc.flag) = "zero" -> 0
      [] BranchOf(loc.flag) = "one" -> 1

\* an iteration of the kernel has just completed
IterationDone == pc = "loop" /\ loc.i > 0

\* the pair at the specification's addresses of the completed iteration holds
\* the rotation of the values the two addresses held when the iteration began
PairRotated(flag) ==
    LET xa == SpecXA(loc.i - 1)
        ya == SpecYA(loc.i - 1)
    IN  /\ InBounds(xa)
        /\ InBounds(ya)
        /\ Load(mem, ya) = RefY(flag, Load(memI, xa), Load(memI, ya))
        /\ xa /= ya => Load(mem, xa) = RefX(flag, Load(memI, xa), Load(memI, ya))

\* C1: a call with N <= 0, through any entry point and with any strides,
\* offsets and param, does not fail and leaves x and y (for Module: the whole
\* memory) unchanged.
C1_NonPositiveN_NoOp ==
    (Called /\ call.N <= 0) =>
        /\ pc /= "trap"
        /\ arrs = arrs0
        /\ call.form = "module" => mem = mem0

C1_Witness ==
    /\ pc = "done"
    /\ call.N < 0
    /\ call.form = "routine"
    /\ call.strideX = -1
    /\ EntryFlag = -1

\* C2: a call with param[0] = -2 and N >= 0 does not fail and leaves x and y
\* (for Module: the whole memory) unchanged, whatever param[1..4], the strides
\* and the offsets are.
C2_IdentityFlag_NoOp ==
    (Called /\ EntryFlag = -2 /\ call.N >= 0) =>
        /\ pc /= "trap"
        /\ arrs = arrs0
        /\ call.form = "module" => mem = mem0

C2_Witness ==
    /\ pc = "done"
    /\ EntryFlag = -2
    /\ call.N = MaxN
    /\ call.form = "module"
    /\ call.strideX = 1

\* C3: with flag = -1 and N > 0 every iteration replaces the pair
\* (w, z) = (x[ix], y[iy]), ix = offsetX + i*strideX, iy = offsetY + i*strideY,
\* by x[ix] = w*param[1] + z*param[3] and y[iy] = w*param[2] + z*param[4].
C3_FullMatrixPair ==
    (IterationDone /\ EntryFlag = -1) => PairRotated(-1)

\* C4: with flag = 0 and N > 0 every iteration replaces the pair (w, z) by
\* x[ix] = w + z*param[3] and y[iy] = w*param[2] + z; param[1] and param[4]
\* do not occur in the result.
C4_FlagZeroPair ==
    (IterationDone /\ EntryFlag = 0) => PairRotated(0)

\* C5: with flag = 1 and N > 0 every iteration replaces the pair (w, z) by
\* x[ix] = w*param[1] + z and y[iy] = z*param[4] - w; param[2] and param[3]
\* do not occur in the result.
C5_FlagOnePair ==
    (IterationDone /\ EntryFlag = 1) => PairRotated(1)

\* C6: in iteration i the kernel reads and writes x at byte address
\* xptr + 8*(offsetX + i*strideX) and y at yptr + 8*(offsetY + i*strideY), for
\* every combination of strides and offsets.
C6_IterationAddresses ==
    pc \in {"storeX", "storeY"} =>
        /\ loc.xa = SpecXA(loc.i)
        /\ loc.ya = SpecYA(loc.i)

\* no two elements indexed by the call coincide
NoCoincidence ==
    /\ Cardinality(Indexed(call.N, call.strideX, call.offsetX)) = call.N
    /\ Cardinality(Indexed(call.N, call.strideY, call.offsetY)) = call.N
    /\ call.x = call.y =>
        Indexed(call.N, call.strideX, call.offsetX)
            \cap Indexed(call.N, call.strideY, call.offsetY) = {}

RecognizedFlags == {-2, -1, 0, 1}

\* C7: after Routine.prototype.ndarray (or main) on ordinary arrays with N > 0
\* and no two indexed elements coinciding, x[offsetX + i*strideX] and
\* y[offsetY + i*strideY] hold the rotation of the values the two elements had
\* before the call, for every i in [0, N).
C7_RoutineRotatesPairs ==
    (pc = "done" /\ call.form = "routine" /\ call.N > 0 /\ NoCoincidence
        /\ EntryFlag \in RecognizedFlags) =>
        \A i \in 0..(call.N - 1) :
            LET ix == Index(call.strideX, call.offsetX, i)
                iy == Index(call.strideY, call.offsetY, i)
                w == arrs0[call.x][ix]
                z == arrs0[call.y][iy]
            IN  /\ arrs[call.x][ix] = RefX(EntryFlag, w, z)
                /\ arrs[call.y][iy] = RefY(EntryFlag, w, z)

C7_Witness ==
    /\ pc = "done"
    /\ call.form = "routine"
    /\ call.entry = "ndarray"
    /\ call.N = MaxN
    /\ NoCoincidence
    /\ EntryFlag = -1
    /\ call.x = call.y
    /\ call.strideX = call.strideY
    /\ call.strideX > 0
    /\ call.offsetX /= call.offsetY

\* C8: every entry point that returns returns its y argument: the Routine
\* methods the array passed as y, the Module methods the number passed as
\* yptr, also when N <= 0 or flag = -2.
C8_ReturnsY ==
    pc = "done" =>
        ret = IF call.form = "routine"
              THEN [kind |-> "array", val |-> call.y]
              ELSE [kind |-> "ptr", val |-> call.yptr]

C8_Witness ==
    /\ pc = "done"
    /\ call.form = "module"
    /\ call.N <= 0
    /\ call.xptr /= call.yptr

\* C9: in every iteration both elements are read before either is written:
\* the value stored to y is computed from the value the x element held when
\* the iteration began, not from the value just stored to x, for every flag
\* form and also when x and y share memory.
C9_ReadsBeforeWrites ==
    IterationDone =>
        Load(mem, loc.ya) =
            RefY(BranchFlag, Load(memI, loc.xa), Load(memI, loc.ya))

C9_Witness ==
    /\ IterationDone
    /\ call.form = "module"
    /\ call.xptr = call.yptr
    /\ loc.xa /= loc.ya
    /\ Load(mem, loc.xa) /= Load(memI, loc.xa)
    /\ EntryFlag = 1

\* the indexes of array name that the call addresses as x or as y
IndexedIn(name) ==
    (IF call.x = name
     THEN Indexed(call.N, call.strideX, call.offsetX) ELSE {})
    \cup
    (IF call.y = name
     THEN Indexed(call.N, call.strideY, call.offsetY) ELSE {})

\* C10 (as claimed): after a Routine call every element of x whose index is not
\* offsetX + i*strideX, and every element of y whose index is not
\* offsetY + i*strideY, has the value it had before the call.
C10_OnlyOwnIndexedModified ==
    (pc = "done" /\ call.form = "routine") =>
        /\ \A j \in (0..(ArrLen - 1)) \ Indexed(call.N, call.strideX, call.offsetX) :
                arrs[call.x][j] = arrs0[call.x][j]
        /\ \A j \in (0..(ArrLen - 1)) \ Indexed(call.N, call.strideY, call.offsetY) :
                arrs[call.y][j] = arrs0[call.y][j]

\* C10 (amended): after a Routine call every element of an array that the call
\* indexes neither as x nor as y has the value it had before the call.
C10_OnlyIndexedModified ==
    (pc = "done" /\ call.form = "routine") =>
        \A name \in ArrNames :
            \A j \in (0..(ArrLen - 1)) \ IndexedIn(name) :
                arrs[name][j] = arrs0[name][j]

C10_Witness ==
    /\ pc = "done"
    /\ call.form = "routine"
    /\ call.N = MaxN
    /\ call.offsetX > 0
    /\ EntryFlag = 0
    /\ arrs /= arrs0

\* the in-place algorithm of the specification from iteration i on: read the
\* pair at the two addresses, then write both
RECURSIVE RefRun(_, _, _, _, _, _, _, _, _, _)
RefRun(m, flag, i, N, xptr, strideX, offsetX, yptr, strideY, offsetY) ==
    IF i >= N THEN m
    ELSE LET xa == Addr(xptr, Index(strideX, offsetX, i))
             ya == Addr(yptr, Index(strideY, offsetY, i))
             w == Load(m, xa)
             z == Load(m, ya)
         IN  RefRun(Store(Store(m, xa, RefX(flag, w, z)), ya, RefY(flag, w, z)),
                    flag, i + 1, N, xptr, strideX, offsetX,
                    yptr, strideY, offsetY)

\* the second call of a caller of two calls has ended
SecondEnded == first /= NoFirst /\ pc \in {"done", "trap"}

\* C11: Routine.prototype.main(N, x, strideX, y, strideY, param) leaves x and
\* y in the state that Routine.prototype.ndarray leaves them in when called on
\* the same inputs with offsetX = (1-N)*strideX if strideX < 0 else 0 and
\* offsetY = (1-N)*strideY if strideY < 0 else 0.
C11_RoutineMainIsNdarray ==
    (SecondEnded /\ call.form = "routine") =>
        /\ first.pc = "done"
        /\ pc = "done"
        /\ arrs = first.arrs
        /\ ret = first.ret

C11_Witness ==
    /\ SecondEnded
    /\ call.form = "routine"
    /\ call.N = MaxN
    /\ call.strideX < 0
    /\ call.strideY > 0
    /\ arrs /= arrs0
    /\ arrs = first.arrs

\* C12: Module.prototype.main leaves the memory that Module.prototype.ndarray
\* leaves when called with offsetX = (1-N)*strideX if strideX < 0 else 0 and
\* offsetY = (1-N)*strideY if strideY < 0 else 0, for every N and every pair of
\* strides, and this memory is the rotation of the N logical pairs.
C12_ModuleMainIsNdarray ==
    (SecondEnded /\ call.form = "module") =>
        /\ pc = first.pc
        /\ mem = first.mem
        /\ (pc = "done" /\ EntryFlag \in RecognizedFlags) =>
                mem = RefRun(mem0, EntryFlag, 0, call.N,
                             call.xptr, call.strideX, call.offsetX,
                             call.yptr, call.strideY, call.offsetY)

C12_Witness ==
    /\ SecondEnded
    /\ call.form = "module"
    /\ pc = "done"
    /\ call.N = MaxN
    /\ call.strideX = call.strideY
    /\ call.strideX < 0
    /\ mem /= mem0
    /\ mem = first.mem

\* the cells the specification assigns to x and to y in a call c
XCells(c) ==
    {Cell(Addr(c.xptr, Index(c.strideX, c.offsetX, i))) : i \in 0..(c.N - 1)}
YCells(c) ==
    {Cell(Addr(c.yptr, Index(c.strideY, c.offsetY, i))) : i \in 0..(c.N - 1)}

\* C13: for N > 0 and s > 0, walking a vector with stride -s from offset
\* o + (N-1)*s touches the addresses that walking it with stride s from offset o
\* touches, in reverse order, and on the reversed storage the final contents
\* agree element for element in logical order, the partner vector's final
\* contents being identical (x and y not sharing cells).
C13_StrideSymmetry ==
    (SecondEnded /\ first.pc = "done" /\ XCells(call) \cap YCells(call) = {}) =>
        /\ pc = "done"
        /\ Len(trace) = Len(first.trace)
        /\ \A i \in 1..Len(trace) :
                trace[i][1] = first.trace[Len(trace) + 1 - i][1]
        /\ \A i \in 0..(call.N - 1) :
                Load(mem, Addr(call.xptr, Index(call.strideX, call.offsetX, i)))
                    = Load(first.mem, Addr(first.call.xptr,
                            Index(first.call.strideX, first.call.offsetX, i)))
        /\ \A c \in YCells(call) \cap DOMAIN mem : mem[c] = first.mem[c]

\* x and y are the even and the odd elements of one buffer
Interleaved ==
    /\ call.form = "module"
    /\ call.entry = "ndarray"
    /\ call.xptr = call.yptr
    /\ call.strideX = 2
    /\ call.strideY = 2
    /\ call.offsetX = 0
    /\ call.offsetY = 1

\* C14: when x and y are the even and the odd elements of the same buffer
\* (same pointer, strides 2, offsets 0 and 1), the kernel's result is that of
\* a reference run on scratch copies: every pair's new values are computed
\* from that pair's values before the call and stored at the pair's own two
\* addresses.
C14_InterleavedAliasing ==
    (pc = "done" /\ Interleaved /\ call.N > 0 /\ EntryFlag \in RecognizedFlags) =>
        \A i \in 0..(call.N - 1) :
            LET xa == Addr(call.xptr, Index(call.strideX, call.offsetX, i))
                ya == Addr(call.yptr, Index(call.strideY, call.offsetY, i))
                w == Load(mem0, xa)
                z == Load(mem0, ya)
            IN  /\ Load(mem, xa) = RefX(EntryFlag, w, z)
                /\ Load(mem, ya) = RefY(EntryFlag, w, z)

\* the values of the caller's array, or of the vector at a pointer, as a
\* sequence of DocN elements
ArrayValues(name) == [i \in 1..DocN |-> arrs[name][i - 1]]
VectorValues(ptr) == [i \in 1..DocN |-> Load(mem, Addr(ptr, i - 1))]

\* C15: with N = 5, x = [1,2,3,4,5], y = [1,1,1,1,1], unit strides, zero
\* offsets and param = [0,0,2,-3,0], Routine.main and Routine.ndarray leave
\* x = [-2,-1,0,1,2] and y = [3,5,7,9,11].
C15_DocRoutineExample ==
    (pc = "done" /\ call.form = "routine" /\ call.N = DocN
        /\ param = ParamOf(0, <<0, 2, -3, 0>>)) =>
        /\ ArrayValues("a") = <<-2, -1, 0, 1, 2>>
        /\ ArrayValues("b") = <<3, 5, 7, 9, 11>>

C15_Witness ==
    /\ pc = "done"
    /\ call.form = "routine"
    /\ call.entry = "main"
    /\ call.N = DocN
    /\ param = ParamOf(0, <<0, 2, -3, 0>>)
    /\ arrs /= arrs0

\* C16: with x = [1,2,3,4,5] at byte 0, y = [1,1,1,1,1] at byte 40 and
\* param = [1,1,1,1,1] at byte 80, Module.main(5,0,1,40,1,80) and
\* Module.ndarray(5,0,1,0,40,1,0,80) return 40 and leave x = [2,3,4,5,6]
\* and y = [0,-1,-2,-3,-4] in the module memory.
C16_DocModuleExample ==
    (pc = "done" /\ call.form = "module" /\ call.N = DocN
        /\ Load(mem0, DocPPtr) = 1) =>
        /\ ret = [kind |-> "ptr", val |-> 40]
        /\ VectorValues(0) = <<2, 3, 4, 5, 6>>
        /\ VectorValues(40) = <<0, -1, -2, -3, -4>>

C16_Witness ==
    /\ pc = "done"
    /\ call.form = "module"
    /\ call.entry = "ndarray"
    /\ call.N = DocN
    /\ Load(mem0, DocPPtr) = 1
    /\ mem /= mem0

\* C17: no step of a call to Routine.main or Routine.ndarray changes the
\* caller's param array: it is copied into the module memory and never read
\* back.
C17_ParamNeverMutated ==
    [][(call.form = "routine" \/ call'.form = "routine") => param' = param]_vars

C17_Witness ==
    /\ pc = "done"
    /\ call.form = "routine"
    /\ call.N > 0
    /\ arrs[call.x] /= arrs0[call.x]
    /\ \A j \in 0..(PARAM_LEN - 1) : param[j] = Load(mem, Addr(desc.p.ptr, j))

\* x and y are vectors of N distinct elements each, with no element in
\* common
SeparateVectors(c) ==
    /\ c.N > 0
    /\ Cardinality(XCells(c)) = c.N
    /\ Cardinality(YCells(c)) = c.N
    /\ XCells(c) \cap YCells(c) = {}
    /\ (XCells(c) \cup YCells(c)) \subseteq 0..(Cell(c.pptr) - 1)

\* C18: applying the rotation with an invertible H and then, on the same N,
\* strides and offsets, the rotation with the inverse of H restores the
\* original x and y.
C18_RoundTrip ==
    (SecondEnded /\ SeparateVectors(call)) =>
        /\ pc = "done"
        /\ \A c \in XCells(call) \cup YCells(call) : mem[c] = first.mem0[c]

\* C19 as stated: for a flag outside {-2, -1, 0, 1} the call is rejected
\* without mutation or is a no-op, so x and y are unchanged either way.
C19_UnrecognizedFlag_NoMutation ==
    (Called /\ EntryFlag \notin RecognizedFlags) =>
        /\ arrs = arrs0
        /\ call.form = "module" => mem = mem0

\* C19 amended: a flag outside {-2, -1, 0, 1} is neither rejected nor a
\* no-op: with N > 0 the kernel performs its N iterations, and each replaces
\* the pair it loaded by the full-matrix rotation when flag < 0 and by the
\* flag-1 rotation when flag > 0.
C19_UnrecognizedFlag_Rotates ==
    (Called /\ EntryFlag \notin RecognizedFlags /\ call.N > 0) =>
        /\ pc = "done" => Len(trace) = call.N
        /\ IterationDone =>
            LET f == IF EntryFlag < 0 THEN -1 ELSE 1
                w == Load(memI, loc.xa)
                z == Load(memI, loc.ya)
            IN  /\ Load(mem, loc.ya) = RefY(f, w, z)
                /\ loc.xa /= loc.ya => Load(mem, loc.xa) = RefX(f, w, z)

C19_Witness ==
    /\ pc = "done"
    /\ call.form = "module"
    /\ call.N = MaxN
    /\ EntryFlag = 2
    /\ Len(trace) = call.N
    /\ mem /= mem0

\* C20 as stated: when an address of x or y lies outside the memory, the
\* failure is signalled before any element has been modified.
C20_AllOrNothing ==
    pc = "trap" =>
        /\ mem = mem0
        /\ arrs = arrs0

\* C20 amended: the failure is signalled at the first iteration i whose x or
\* y address, as the kernel computes it, lies outside the memory; the
\* iterations 0..i-1 have been performed and their stores remain.
C20_TrapAtFaultingIteration ==
    (pc = "trap" /\ loc /= NoLoc) =>
        LET xa == Addr(k.xptr, loc.ix)
            ya == Addr(k.yptr, YIndexOf(loc))
        IN  /\ ~(InBounds(xa) /\ InBounds(ya))
            /\ loc.i < k.N
            /\ Len(trace) = loc.i
            /\ \A j \in 1..Len(trace) : InBounds(trace[j][1]) /\ InBounds(trace[j][2])
            /\ mem = RefRun(mem0, BranchFlag, 0, loc.i,
                            k.xptr, k.strideX, k.offsetX, k.yptr, k.strideY,
                            IF loc.path = "equal" THEN k.offsetX ELSE k.offsetY)

C20_Witness ==
    /\ pc = "trap"
    /\ loc /= NoLoc
    /\ loc.i > 0
    /\ mem /= mem0
    /\ ~InBounds(Addr(k.xptr, loc.ix))

\* the number of elements of the caller's param array
ParamLength == Cardinality(DOMAIN param)

\* C21 as stated: a call whose param does not have exactly 5 elements ends
\* in an error, before any element of x or y is modified.
C21_InvalidParameterLength ==
    (Called /\ call.form = "routine" /\ ParamLength /= PARAM_LEN) =>
        /\ pc /= "done"
        /\ arrs = arrs0

\* C21 amended: the length of param is not checked.  Whatever its length,
\* exactly five elements are copied to the module memory (a missing one as
\* NaN, a sixth one not at all), no error is signalled, and with N > 0 and
\* flag /= -2 the kernel performs its N iterations.
C21_ParamLengthNotChecked ==
    (Called /\ call.form = "routine" /\ ParamLength /= PARAM_LEN) =>
        /\ pc /= "trap"
        /\ \A j \in 0..(PARAM_LEN - 1) :
                Load(mem, Addr(desc.p.ptr, j)) = ParamElement(param, j)
        /\ LET c == Cell(desc.p.ptr) + PARAM_LEN
           IN  c \in DOMAIN mem => mem[c] = mem0[c]
        /\ (pc = "done" /\ call.N > 0 /\ EntryFlag /= -2) =>
                Len(trace) = call.N

C21_Witness ==
    /\ pc = "done"
    /\ call.form = "routine"
    /\ ParamLength < PARAM_LEN
    /\ call.N = MaxN
    /\ arrs /= arrs0
    /\ Load(mem, Addr(desc.p.ptr, PARAM_LEN - 1)) = NaN

\* a kernel invocation is in progress
InKernel == pc \in {"entry", "loop", "storeX", "storeY", "ret"}

\* C22: the Module constructor, given an argument that is not a WebAssembly
\* memory, throws a TypeError before the parent constructor is invoked, so
\* that no instance state is created; called without `new` on a memory it
\* returns a new Module instance bound to that memory.
C22_ModuleConstructor ==
    /\ inst.arg \in NotMemories =>
        /\ ~inst.parent
        /\ inst.kind = "none"
        /\ inst.memory = "none"
        /\ pc \in {"ctorRenew", "ctorCheck", "throw"}
        /\ pc = "throw" => ret.kind = "TypeError"
    /\ (inst.arg = "memory" /\ ~inst.calledWithNew /\ inst.kind /= "none") =>
        /\ inst.kind = "Module"
        /\ inst.parent
        /\ inst.memory = "memory"
        /\ ~Called => ret.kind = "Module"

C22_Witness ==
    /\ pc = "throw"
    /\ inst.arg = "object"
    /\ ~inst.calledWithNew
    /\ ret.kind = "TypeError"
    /\ ~inst.parent

\* C30: the default export is exported only once it is initialized, the
\* kernel runs only on an initialized instance, and main or ndarray called
\* on a Module that was not initialized throws without reading or writing
\* the module memory.
C30_InitializedBeforeUse ==
    /\ inst.exported => inst.initialized
    /\ InKernel => inst.initialized
    /\ (Called /\ ~inst.initialized) =>
        /\ pc = "throw"
        /\ call.form = "module"
        /\ mem = mem0
        /\ trace = <<>>
        /\ loc = NoLoc
    /\ (Called /\ call.form = "routine") => inst.exported

C30_Witness ==
    /\ pc = "throw"
    /\ Called
    /\ call.entry = "main"
    /\ inst.kind = "Module"
    /\ ~inst.initialized
    /\ mem = mem0

\* the caller's arrays after a Routine call, as a function of the call's
\* arguments alone: the copies are written to a blank memory, rotated there,
\* and read back, x first
BlankMemory == [c \in 0..(MemCells - 1) |-> 0]
ResultOfArguments ==
    LET n == CopyLen(call.N)
        copied == WriteCopies(BlankMemory, call.N,
                              arrs0[call.x], call.strideX, call.offsetX,
                              arrs0[call.y], call.strideY, call.offsetY, param)
        rotated == RefRun(copied, FormulaOf(EntryFlag), 0, call.N,
                          0, 1, 0, n * BYTES_PER_ELEMENT, 1, 0)
        afterX == [arrs0 EXCEPT ![call.x] =
                    readDataView(call.N, rotated, BYTES_PER_ELEMENT, 0,
                                 @, call.strideX, call.offsetX)]
    IN  [afterX EXCEPT ![call.y] =
            readDataView(call.N, rotated, BYTES_PER_ELEMENT,
                         n * BYTES_PER_ELEMENT,
                         @, call.strideY, call.offsetY)]

\* C23: the arrays and the return value that a call on the default routine
\* leaves are determined by the call's arguments alone, whatever an earlier
\* call has left in the module memory.
C23_NoPersistentState ==
    (pc = "done" /\ call.form = "routine") =>
        /\ arrs = ResultOfArguments
        /\ ret.kind = "array"
        /\ ret.val = call.y

C23_Witness ==
    /\ pc = "done"
    /\ first /= NoFirst
    /\ call.form = "routine"
    /\ call.N = 1
    /\ first.call.N = MaxN
    /\ mem0 /= first.mem0
    /\ arrs /= arrs0
    /\ EntryFlag = -1

\* C24: the coefficients are loaded from param once, before the loop: in
\* every iteration the kernel holds the values param had at call entry and
\* stores to x the value computed from them, also after a store of an
\* earlier iteration has overwritten the memory param occupies.
C24_CoefficientsLoadedOnce ==
    (pc \in {"loop", "storeX", "storeY"}) =>
        /\ loc.flag = EntryFlag
        /\ BranchOf(loc.flag) \in {"full", "one"} =>
                loc.h11 = EntryParam(1) /\ loc.h22 = EntryParam(4)
        /\ BranchOf(loc.flag) \in {"full", "zero"} =>
                loc.h21 = EntryParam(2) /\ loc.h12 = EntryParam(3)
        /\ pc = "storeY" => Load(mem, loc.xa) = RefX(BranchFlag, loc.w, loc.z)

C24_Witness ==
    /\ pc = "storeY"
    /\ loc.i > 0
    /\ call.pptr = OverlapPPtr
    /\ EntryFlag = -1
    /\ Load(memI, PAddr(1)) /= EntryParam(1)
    /\ loc.h11 = EntryParam(1)

\* the iterations the kernel has to perform
IterationsDue == IF call.N > 0 /\ EntryFlag /= -2 THEN call.N ELSE 0

\* the call has ended: it has returned, or it has trapped on an address
\* outside the memory
Ended == pc \in {"done", "trap"}

\* C25: every call ends; a call that returns has performed exactly N
\* iterations when N > 0 and flag /= -2 and none otherwise, each iteration
\* being one pair of loads followed by one pair of stores; the counter i
\* never passes N, so that the exit test i == N is met.
C25_TerminatesInOnePass ==
    /\ [](pc = "done" => Len(trace) = IterationsDue)
    /\ [](pc \in {"loop", "storeX", "storeY"} =>
            /\ k.N > 0
            /\ loc.i <= k.N
            /\ Len(trace) = IF pc = "loop" THEN loc.i ELSE loc.i + 1)
    /\ (Called ~> Ended)

C25_Witness ==
    /\ pc = "done"
    /\ call.N = MaxN
    /\ EntryFlag = 1
    /\ Len(trace) = MaxN
    /\ loc.i = MaxN

ReadBackAddr(d, i) == d.ptr + i * d.stride * BYTES_PER_ELEMENT
KernelAddr(d, i) == d.ptr + BYTES_PER_ELEMENT * (d.offset + i * d.stride)

RECURSIVE InPlace(_, _, _)
InPlace(as, flag, i) ==
    IF i >= call.N THEN as
    ELSE LET ix == Index(call.strideX, call.offsetX, i)
             iy == Index(call.strideY, call.offsetY, i)
             w == as[call.x][ix]
             z == as[call.y][iy]
             afterX == [as EXCEPT ![call.x][ix] = RefX(flag, w, z)]
         IN  InPlace([afterX EXCEPT ![call.y][iy] = RefY(flag, w, z)],
                     flag, i + 1)

\* C28: Routine.prototype.ndarray leaves the caller's arrays as the in-place
\* algorithm leaves them, also when indexed elements of x and y coincide.
C28_RoutineIsInPlace ==
    (pc = "done" /\ call.form = "routine" /\ EntryFlag \in RecognizedFlags) =>
        arrs = InPlace(arrs0, EntryFlag, 0)

\* no element of x or y that a call loaded is the flag itself
FlagApart(t, pptr) == \A j \in 1..Len(t) : t[j][1] /= pptr /\ t[j][2] /= pptr

\* C29: a call with any flag has the outcome of the same call with the
\* recognised flag of the same sign (-1 for a flag < 0 other than -2, 0 for
\* 0, 1 for a flag > 0): the same x and y, the same addresses, the same
\* return; x and y do not contain the flag.
C29_FlagSelectsBySign ==
    (SecondEnded /\ FlagApart(first.trace, call.pptr)) =>
        /\ pc = first.pc
        /\ trace = first.trace
        /\ ret = first.ret
        /\ \A c \in DOMAIN mem : c /= Cell(call.pptr) => mem[c] = first.mem[c]
        /\ Load(mem0, call.pptr) = FormulaOf(Load(first.mem0, call.pptr))

C29_Witness ==
    /\ SecondEnded
    /\ pc = "done"
    /\ call.N = MaxN
    /\ Load(first.mem0, call.pptr) = -3
    /\ Load(mem0, call.pptr) = -1
    /\ mem /= mem0

====
